---------------------------- MODULE Spec2Model ----------------------------
(***************************************************************************)
(* Verification model of the scoring bounds and N filter (scoring.cpp) and *)
(* of the per-cell backtrace masks of the SSE dynamic-programming matrix   *)
(* (aligner_swsse.h).                                                      *)
(*                                                                         *)
(* The specifications share      the variables:                               *)
(*   SpecGaps    Scoring::maxReadGaps / Scoring::maxRefGaps, one loop      *)
(*               iteration per step;                                       *)
(*   SpecNFilter Scoring::nFilter / Scoring::nFilterPair;                  *)
(*   Spec        SSEMatrix mask words, the mask setters and analyzeCell;   *)
(*   SpecMerge   SSEMetrics::merge by several workers, one memory access   *)
(*               per step.                                                 *)
(***************************************************************************)
EXTENDS Integers, Naturals, Sequences, FiniteSets, TLC

VARIABLES
    scoring,   \* the Scoring object (immutable after construction)
    gaps,      \* activation record of maxReadGaps / maxRefGaps
    nf,        \* last nFilter / nFilterPair call: arguments and results
    mat,       \* the filled DP matrix: dimensions, E/F/H elements, read, ref
    masks_,    \* SSEMatrix::masks_, one 16-bit word per cell
    out,       \* the last analyzeCell call: its cell and its out-parameters
    last,      \* per cell, the mask most recently given to h/e/fMaskSet
    nops,      \* operations performed on the matrix
    run,       \* the values returned by the analyzeCell calls of a lifecycle
               \* that consists of calls on one cell and cell type only
    met        \* the shared SSEMetrics, the workers' own, and their merges

vars == <<scoring, gaps, nf, mat, masks_, out, last, nops, run, met>>
matvars == <<mat, masks_, out, last, nops, run>>

(***************************************************************************)
(* Bounds of the model.                                                    *)
(***************************************************************************)
MaxRdLen == 21      \* largest rdlen passed to maxReadGaps / maxRefGaps
MaxIter == 8        \* cap on the loop counter num (the loop may not end)
MaxReadLen == 10    \* longest read given to nFilter
MaxMateLen == 3     \* longest mate given to nFilterPair
MaxOps == 3         \* operations on the matrix in one behaviour
MaxWorkers == 2     \* workers that merge into the shared SSEMetrics

(***************************************************************************)
(* float.  A float value x is held as the integer x * 2^27; 0.1f is        *)
(* 13421773 * 2^-27 exactly.  RoundF rounds an exact result to the nearest *)
(* value with a 24-bit significand, ties to even, as each float operation  *)
(* of the N-ceiling expression does.                                       *)
(***************************************************************************)
FScale == 2^27
FMant == 2^24
NCeilLinearTenth == 13421773

Abs(n) == IF n < 0 THEN 0 - n ELSE n

RECURSIVE Ulp(_, _)
Ulp(a, u) == IF a \div u < FMant THEN u ELSE Ulp(a, 2 * u)

RoundF(n) ==
    LET a == Abs(n)
        u == Ulp(a, 1)
        q == a \div u
        r == a % u
        q2 == IF 2 * r > u \/ (2 * r = u /\ q % 2 = 1) THEN q + 1 ELSE q
    IN  IF n < 0 THEN 0 - (q2 * u) ELSE q2 * u

\* float * (float)size_t and float + float
FMul(a, n) == RoundF(a * n)
FAdd(a, b) == RoundF(a + b)
\* (float)ns for a small integer ns
ToFloat(ns) == ns * FScale

(***************************************************************************)
(* The Scoring object.                                                     *)
(***************************************************************************)
MkScoring(m, rdo, rde, rfo, rfe, ncc, ncl, ncat, gb, mm) ==
    [match |-> m, gapbar |-> gb, mmpen |-> mm,
     readGapOpen |-> rdo, readGapExtend |-> rde,
     refGapOpen |-> rfo, refGapExtend |-> rfe,
     nCeilConst |-> ncc, nCeilLinear |-> ncl, ncatpair |-> ncat]

match == scoring.match
readGapOpen == scoring.readGapOpen
readGapExtend == scoring.readGapExtend
refGapOpen == scoring.refGapOpen
refGapExtend == scoring.refGapExtend
nCeilConst == scoring.nCeilConst
nCeilLinear == scoring.nCeilLinear
ncatpair == scoring.ncatpair
gapbar == scoring.gapbar

(***************************************************************************)
(* Scoring::maxReadGaps and Scoring::maxRefGaps.                           *)
(***************************************************************************)
Matches == {0, 1, 4}
\* <<open, extend>>
GapCosts == {<<0, 0>>, <<0, 1>>, <<2, 0>>, <<3, 1>>, <<15, 4>>, <<35, 10>>}
MinScs == {-2, 0, 3}

GapScorings ==
    {MkScoring(m, rd[1], rd[2], rf[1], rf[2], 0, 0, FALSE, 5, 3) :
        m \in Matches, rd \in GapCosts, rf \in GapCosts}

GapsIdle ==
    [pc |-> "idle", fn |-> "none", minsc |-> 0, rdlen |-> 0,
     sc |-> 0, first |-> TRUE, num |-> 0, ret |-> 0]

NfIdle ==
    [op |-> "none", rd1 |-> <<>>, rd2 |-> <<>>,
     ret |-> FALSE, filt1 |-> FALSE, filt2 |-> FALSE]

\* The matrix variables of a behaviour that uses no matrix.
MatIdle ==
    /\ mat = [nrow |-> 0, ncol |-> 0]
    /\ masks_ = <<>>
    /\ out = [called |-> FALSE]
    /\ last = <<>>
    /\ nops = 0
    /\ run = [st |-> "none"]

\* The metrics variable of a behaviour that merges no metrics.
MetIdle == [n |-> 0]

\* int64_t sc = (int64_t)(rdlen * match)
AllMatchScore(rdlen) == rdlen * match

\* One pass of the body of maxReadGaps' while loop: the new sc.
ReadGapsStepMut(sc, first) ==
    IF first THEN sc - readGapOpen ELSE sc - readGapExtend

ReadGapsStep(sc, first) ==
    IF first THEN (sc - match) - readGapOpen ELSE (sc - match) - readGapExtend

\* One pass of the body of maxRefGaps' while loop: the new sc.
RefGapsStepMut(sc, first) ==
    IF first THEN (sc - match) - refGapOpen ELSE (sc - match) - refGapExtend

RefGapsStep(sc, first) ==
    IF first THEN sc - refGapOpen ELSE sc - refGapExtend

\* return num-1
GapsReturnMut(num) == num

GapsReturn(num) == num - 1

\* Entry: sc is set and assert_geq(sc, minsc) holds.
GapsCall(fn, minsc, rdlen) ==
    /\ gaps.pc \in {"idle", "done"}
    /\ AllMatchScore(rdlen) >= minsc
    /\ gaps' = [pc |-> "loop", fn |-> fn, minsc |-> minsc, rdlen |-> rdlen,
                sc |-> AllMatchScore(rdlen), first |-> TRUE, num |-> 0,
                ret |-> 0]
    /\ UNCHANGED <<scoring, nf, matvars, met>>

maxReadGapsCall(minsc, rdlen) == GapsCall("maxReadGaps", minsc, rdlen)

maxRefGapsCall(minsc, rdlen) == GapsCall("maxRefGaps", minsc, rdlen)

\* while(sc >= minsc) { ... num++; } of maxReadGaps
maxReadGapsIter ==
    /\ gaps.pc = "loop" /\ gaps.fn = "maxReadGaps"
    /\ gaps.sc >= gaps.minsc
    /\ gaps.num < MaxIter
    /\ gaps' = [gaps EXCEPT !.sc = ReadGapsStep(gaps.sc, gaps.first),
                            !.first = FALSE,
                            !.num = gaps.num + 1]
    /\ UNCHANGED <<scoring, nf, matvars, met>>

\* while(sc >= minsc) { ... num++; } of maxRefGaps
maxRefGapsIter ==
    /\ gaps.pc = "loop" /\ gaps.fn = "maxRefGaps"
    /\ gaps.sc >= gaps.minsc
    /\ gaps.num < MaxIter
    /\ gaps' = [gaps EXCEPT !.sc = RefGapsStep(gaps.sc, gaps.first),
                            !.first = FALSE,
                            !.num = gaps.num + 1]
    /\ UNCHANGED <<scoring, nf, matvars, met>>

\* Loop exit: assert_gt(num, 0); return num-1
GapsExit ==
    /\ gaps.pc = "loop"
    /\ gaps.sc < gaps.minsc
    /\ gaps' = [gaps EXCEPT !.pc = "done", !.ret = GapsReturn(gaps.num)]
    /\ UNCHANGED <<scoring, nf, matvars, met>>

InitGaps ==
    /\ scoring \in GapScorings
    /\ gaps = GapsIdle
    /\ nf = NfIdle
    /\ MatIdle
    /\ met = MetIdle

NextGaps ==
    \/ \E minsc \in MinScs, rdlen \in 0..MaxRdLen : maxReadGapsCall(minsc, rdlen)
    \/ \E minsc \in MinScs, rdlen \in 0..MaxRdLen : maxRefGapsCall(minsc, rdlen)
    \/ maxReadGapsIter
    \/ maxRefGapsIter
    \/ GapsExit

SpecGaps == InitGaps /\ [][NextGaps]_vars

\* The loops past MaxIter passes, where num is no longer counted and stays
\* at MaxIter (in the program num++ goes on, up to the overflow of int; the
\* loop condition does not read num).  A pass is two steps: the test of
\* "sc >= minsc", then the body.
maxReadGapsIterOn ==
    /\ gaps.pc = "loop" /\ gaps.fn = "maxReadGaps"
    /\ gaps.sc >= gaps.minsc
    /\ gaps.num = MaxIter
    /\ gaps' = [gaps EXCEPT !.pc = "body"]
    /\ UNCHANGED <<scoring, nf, matvars, met>>

maxRefGapsIterOn ==
    /\ gaps.pc = "loop" /\ gaps.fn = "maxRefGaps"
    /\ gaps.sc >= gaps.minsc
    /\ gaps.num = MaxIter
    /\ gaps' = [gaps EXCEPT !.pc = "body"]
    /\ UNCHANGED <<scoring, nf, matvars, met>>

GapsBodyOn ==
    /\ gaps.pc = "body"
    /\ gaps' = [gaps EXCEPT !.sc = IF gaps.fn = "maxReadGaps"
                                   THEN ReadGapsStep(gaps.sc, gaps.first)
                                   ELSE RefGapsStep(gaps.sc, gaps.first),
                            !.first = FALSE,
                            !.pc = "loop"]
    /\ UNCHANGED <<scoring, nf, matvars, met>>

\* The steps of a call in progress.
GapsRun ==
    \/ maxReadGapsIter
    \/ maxRefGapsIter
    \/ maxReadGapsIterOn
    \/ maxRefGapsIterOn
    \/ GapsBodyOn
    \/ GapsExit

NextGapsLive ==
    \/ \E minsc \in MinScs, rdlen \in 0..MaxRdLen : maxReadGapsCall(minsc, rdlen)
    \/ \E minsc \in MinScs, rdlen \in 0..MaxRdLen : maxRefGapsCall(minsc, rdlen)
    \/ GapsRun

\* A call that has begun keeps running: its thread is scheduled.
SpecGapsLive == InitGaps /\ [][NextGapsLive]_vars /\ WF_vars(GapsRun)

(***************************************************************************)
(* SSEMatrix: the mask words.  Bit operations on 16-bit words.             *)
(***************************************************************************)
RECURSIVE BitAnd(_, _)
BitAnd(a, b) ==
    IF a = 0 \/ b = 0 THEN 0
    ELSE (IF a % 2 = 1 /\ b % 2 = 1 THEN 1 ELSE 0) + 2 * BitAnd(a \div 2, b \div 2)

RECURSIVE BitOr(_, _)
BitOr(a, b) ==
    IF a = 0 THEN b
    ELSE IF b = 0 THEN a
    ELSE (IF a % 2 = 1 \/ b % 2 = 1 THEN 1 ELSE 0) + 2 * BitOr(a \div 2, b \div 2)

\* x << n, and the low 16 bits of ~x and of x (the store into a uint16_t)
Shl(x, n) == x * 2^n
Not16(x) == (2^16 - 1) - x
Word16(x) == x % 2^16

\* masks_[row * ncol_ + col]
Idx(row, col) == row * mat.ncol + col
Word(row, col) == masks_[Idx(row, col)]

Rows == 0..(mat.nrow - 1)
Cols == 0..(mat.ncol - 1)
Cells == 0..(mat.nrow * mat.ncol - 1)

\* The new word of a cell whose word is w, for each setter.
setReportedThroughWord(w) == Word16(BitOr(w, Shl(1, 0)))

hMaskSetWordMut(w, mask) ==
    Word16(BitOr(BitAnd(w, Not16(Shl(127, 1))), BitOr(Shl(1, 1), Shl(mask, 2))))

hMaskSetWord(w, mask) ==
    Word16(BitOr(BitAnd(w, Not16(Shl(31, 1))), BitOr(Shl(1, 1), Shl(mask, 2))))

eMaskSetWordMut(w, mask) ==
    Word16(BitOr(BitAnd(w, Not16(Shl(3, 7))), BitOr(Shl(1, 7), Shl(mask, 8))))

eMaskSetWord(w, mask) ==
    Word16(BitOr(BitAnd(w, Not16(Shl(7, 7))), BitOr(Shl(1, 7), Shl(mask, 8))))

fMaskSetWordMut(w, mask) ==
    Word16(BitOr(BitAnd(w, Not16(Shl(7, 9))), BitOr(Shl(1, 10), Shl(mask, 11))))

fMaskSetWord(w, mask) ==
    Word16(BitOr(BitAnd(w, Not16(Shl(7, 10))), BitOr(Shl(1, 10), Shl(mask, 11))))

reportedThroughMut(row, col) == BitAnd(Word(row, col), Shl(1, 1)) # 0

reportedThrough(row, col) == BitAnd(Word(row, col), Shl(1, 0)) # 0
isHMaskSet(row, col) == BitAnd(Word(row, col), Shl(1, 1)) # 0
isEMaskSet(row, col) == BitAnd(Word(row, col), Shl(1, 7)) # 0
isFMaskSet(row, col) == BitAnd(Word(row, col), Shl(1, 10)) # 0

\* The stored remaining-predecessor fields as analyzeCell reads them back:
\* (masks_[..] >> 2) & 31, (masks_[..] >> 8) & 3, (masks_[..] >> 11) & 3
HMaskGet(w) == BitAnd(w \div 2^2, 31)
EMaskGet(w) == BitAnd(w \div 2^8, 3)
FMaskGet(w) == BitAnd(w \div 2^11, 3)

(***************************************************************************)
(* The matrix of one DP fill.  E, F, H hold the elements by row and        *)
(* column; rd and rf are the read and reference characters of the rows and *)
(* columns; offsetsc and floorsc are the values the backtrace passes.      *)
(***************************************************************************)
MkMatrix(e, f, h, rd, rf, floorsc) ==
    [nrow |-> Len(h), ncol |-> Len(h[1]), E |-> e, F |-> f, H |-> h,
     rd |-> rd, rf |-> rf, offsetsc |-> 0, floorsc |-> floorsc]

eelt(row, col) == mat.E[row + 1][col + 1]
felt(row, col) == mat.F[row + 1][col + 1]
helt(row, col) == mat.H[row + 1][col + 1]

\* Matrices for match 1, mismatch 3, gap open 2, gap extend 1.
Matrices ==
    { \* cell (1,1): all five predecessors of H, both of E and of F
      MkMatrix(<<<<0, 0>>, <<4, 3>>>>, <<<<6, 4>>, <<5, 3>>>>,
               <<<<2, 5>>, <<5, 3>>>>, <<0, 1>>, <<0, 1>>, 0),
      \* cell (1,1): diagonal and ref-open
      MkMatrix(<<<<0, 0>>, <<0, 0>>>>, <<<<0, 0>>, <<0, 3>>>>,
               <<<<2, 5>>, <<1, 3>>>>, <<0, 1>>, <<0, 1>>, 0),
      \* cell (1,1): no predecessor (a mismatch after a score at the floor)
      MkMatrix(<<<<0, 0>>, <<0, 0>>>>, <<<<0, 0>>, <<0, 0>>>>,
               <<<<1, 0>>, <<0, 0>>>>, <<0, 2>>, <<0, 1>>, 0),
      \* cell (1,1): mismatch diagonal, ref-open, read-open and read-extend
      MkMatrix(<<<<0, 0>>, <<3, 1>>>>, <<<<0, 0>>, <<0, 0>>>>,
               <<<<5, 4>>, <<4, 2>>>>, <<0, 2>>, <<0, 1>>, 0),
      \* three rows, cell (1,1) as the first matrix, predecessors under floor 2
      MkMatrix(<<<<0, 0>>, <<4, 3>>, <<2, 1>>>>, <<<<6, 4>>, <<5, 3>>, <<4, 2>>>>,
               <<<<2, 5>>, <<5, 3>>, <<3, 6>>>>, <<0, 1, 1>>, <<0, 1>>, 2) }

MatScorings == {MkScoring(1, 2, 1, 2, 1, 0, 0, FALSE, gb, 3) : gb \in {0, 1}}

\* Scoring::score(rdc, refc, q): the match bonus for equal bases that are not
\* N, otherwise minus the (constant) mismatch penalty.
Score(readc, refc, q) ==
    IF readc = refc /\ readc < 4 THEN match ELSE 0 - scoring.mmpen

\* alts5[mask]: number of bits set; firsts5[mask]: index of the lowest bit set.
alts5(mask) == Cardinality({i \in 0..4 : BitAnd(mask, Shl(1, i)) # 0})
firsts5(mask) == CHOOSE i \in 0..4 :
    BitAnd(mask, Shl(1, i)) # 0 /\ \A j \in 0..(i - 1) : BitAnd(mask, Shl(1, j)) = 0

\* The values randFromMask(rand, mask) can return: any bit set in mask.
randFromMask(mask) == {i \in 0..4 : BitAnd(mask, Shl(1, i)) # 0}

\* The out-parameters as the caller of analyzeCell declares them before a
\* call (called = FALSE: no call is the last operation).
OutInit ==
    [called |-> FALSE, row |-> 0, col |-> 0, ct |-> 2,
     empty |-> FALSE, cur |-> "NONE", branch |-> FALSE,
     canMoveThru |-> FALSE, reportedThru |-> FALSE]

NoMask == [h |-> -1, e |-> -1, f |-> -1]

\* No operation yet in this lifecycle; and a lifecycle that is not a run of
\* analyzeCell calls on one cell and cell type.
RunFresh == [st |-> "fresh", row |-> 0, col |-> 0, ct |-> 2, curs |-> <<>>]
RunMixed == [st |-> "mixed", row |-> 0, col |-> 0, ct |-> 2, curs |-> <<>>]

\* The run after analyzeCell(row, col, ct, ..) returned ret ("EMPTY" when it
\* returned empty = true, else the transition).
RunAfter(row, col, ct, ret) ==
    IF run.st = "fresh"
       \/ (run.st = "run" /\ run.row = row /\ run.col = col /\ run.ct = ct)
    THEN [st |-> "run", row |-> row, col |-> col, ct |-> ct,
          curs |-> Append(run.curs, ret)]
    ELSE RunMixed

\* Members of the vector quartet, used as the cell type ct.
E == 0
F == 1
H == 2

offsetsc == mat.offsetsc
floorsc == mat.floorsc

\* bool gapsAllowed of analyzeCell
gapsAllowedMut(row) == TRUE

gapsAllowed(row) == ~(row < gapbar \/ (mat.nrow - row - 1) < gapbar)

\* origMask of the E branch
EOrigMask(row, col) ==
    LET sc_cur == eelt(row, col) + offsetsc
        sc_h_left == helt(row, col - 1) + offsetsc
        sc_e_left == eelt(row, col - 1) + offsetsc
    IN  BitOr(IF sc_h_left > floorsc /\ sc_h_left - readGapOpen = sc_cur
                 THEN Shl(1, 0) ELSE 0,
              IF sc_e_left > floorsc /\ sc_e_left - readGapExtend = sc_cur
                 THEN Shl(1, 1) ELSE 0)

\* origMask of the F branch
FOrigMask(row, col) ==
    LET sc_cur == felt(row, col) + offsetsc
        sc_h_up == helt(row - 1, col) + offsetsc
        sc_f_up == felt(row - 1, col) + offsetsc
    IN  BitOr(IF sc_h_up > floorsc /\ sc_h_up - refGapOpen = sc_cur
                 THEN Shl(1, 0) ELSE 0,
              IF sc_f_up > floorsc /\ sc_f_up - refGapExtend = sc_cur
                 THEN Shl(1, 1) ELSE 0)

\* origMask of the H branch; readc, refc, readq are those of the cell
HOrigMask(row, col) ==
    LET sc_cur == helt(row, col) + offsetsc
        sc_f_up == felt(row - 1, col) + offsetsc
        sc_h_up == helt(row - 1, col) + offsetsc
        sc_h_left == IF col > 0 THEN helt(row, col - 1) + offsetsc ELSE floorsc
        sc_e_left == IF col > 0 THEN eelt(row, col - 1) + offsetsc ELSE floorsc
        sc_h_upleft == IF col > 0 THEN helt(row - 1, col - 1) + offsetsc ELSE floorsc
        sc_diag == Score(mat.rd[row + 1], mat.rf[col + 1], 40)
        b0 == IF gapsAllowed(row) /\ sc_h_up > floorsc /\ sc_cur = sc_h_up - refGapOpen
                 THEN Shl(1, 0) ELSE 0
        b1 == IF gapsAllowed(row) /\ sc_h_left > floorsc /\ sc_cur = sc_h_left - readGapOpen
                 THEN Shl(1, 1) ELSE 0
        b2 == IF gapsAllowed(row) /\ sc_f_up > floorsc /\ sc_cur = sc_f_up - refGapExtend
                 THEN Shl(1, 2) ELSE 0
        b3 == IF gapsAllowed(row) /\ sc_e_left > floorsc /\ sc_cur = sc_e_left - readGapExtend
                 THEN Shl(1, 3) ELSE 0
        b4 == IF sc_h_upleft > floorsc /\ sc_cur = sc_h_upleft + sc_diag
                 THEN Shl(1, 4) ELSE 0
    IN  BitOr(b0, BitOr(b1, BitOr(b2, BitOr(b3, b4))))

OrigMask(row, col, ct) ==
    IF ct = E THEN EOrigMask(row, col)
    ELSE IF ct = F THEN FOrigMask(row, col)
    ELSE HOrigMask(row, col)

\* mask after "if(isXMaskSet(row, col)) mask = (masks_[..] >> ..) & .."
WorkMask(row, col, ct) ==
    IF ct = E THEN (IF isEMaskSet(row, col) THEN EMaskGet(Word(row, col))
                    ELSE EOrigMask(row, col))
    ELSE IF ct = F THEN (IF isFMaskSet(row, col) THEN FMaskGet(Word(row, col))
                         ELSE FOrigMask(row, col))
    ELSE (IF isHMaskSet(row, col) THEN HMaskGet(Word(row, col))
          ELSE HOrigMask(row, col))

\* Selection in the E and F branches: u is rand.nextU2() != 0.  wrote is the
\* mask given to e/fMaskSet, -1 when the setter is not called.
SelectEF(mask, origMask, u, openTag, extendTag) ==
    IF mask = 3
    THEN IF u THEN [empty |-> FALSE, cur |-> openTag, wrote |-> 2, branch |-> TRUE]
              ELSE [empty |-> FALSE, cur |-> extendTag, wrote |-> 1, branch |-> TRUE]
    ELSE IF mask = 2
    THEN [empty |-> FALSE, cur |-> extendTag, wrote |-> 0, branch |-> FALSE]
    ELSE IF mask = 1
    THEN [empty |-> FALSE, cur |-> openTag, wrote |-> 0, branch |-> FALSE]
    ELSE [empty |-> TRUE, cur |-> "NONE", wrote |-> -1, branch |-> FALSE]

\* select -> cur of the H branch
HTransitionMut(select) ==
    IF select = 4 THEN "SW_BT_OALL_DIAG"
    ELSE IF select = 0 THEN "SW_BT_OALL_READ_OPEN"
    ELSE IF select = 1 THEN "SW_BT_OALL_REF_OPEN"
    ELSE IF select = 2 THEN "SW_BT_RFGAP_EXTEND"
    ELSE "SW_BT_RDGAP_EXTEND"

HTransition(select) ==
    IF select = 4 THEN "SW_BT_OALL_DIAG"
    ELSE IF select = 0 THEN "SW_BT_OALL_REF_OPEN"
    ELSE IF select = 1 THEN "SW_BT_OALL_READ_OPEN"
    ELSE IF select = 2 THEN "SW_BT_RFGAP_EXTEND"
    ELSE "SW_BT_RDGAP_EXTEND"

\* Selection in the H branch: r is the value randFromMask returns.
SelectH(mask, origMask, r) ==
    LET opts == alts5(mask)
    IN  IF opts = 1
        THEN [empty |-> FALSE, cur |-> HTransition(firsts5(mask)), wrote |-> 0,
              branch |-> FALSE]
        ELSE IF opts > 1
        THEN [empty |-> FALSE, cur |-> HTransition(r),
              wrote |-> BitAnd(mask, Not16(Shl(1, r))), branch |-> TRUE]
        ELSE [empty |-> TRUE, cur |-> "NONE", wrote |-> -1, branch |-> FALSE]

Select(ct, mask, origMask, r) ==
    IF ct = E
    THEN SelectEF(mask, origMask, r = 1, "SW_BT_OALL_READ_OPEN", "SW_BT_RDGAP_EXTEND")
    ELSE IF ct = F
    THEN SelectEF(mask, origMask, r = 1, "SW_BT_OALL_REF_OPEN", "SW_BT_RFGAP_EXTEND")
    ELSE SelectH(mask, origMask, r)

\* The random values a call can draw (0 when it draws none).
RandChoices(ct, mask) ==
    IF ct = H THEN (IF alts5(mask) > 1 THEN randFromMask(mask) ELSE {0})
    ELSE (IF mask = 3 THEN {0, 1} ELSE {0})

\* The word of the cell after x MaskSet(row, col, m) of the branch of ct.
MaskSetWord(ct, w, m) ==
    IF ct = E THEN eMaskSetWord(w, m)
    ELSE IF ct = F THEN fMaskSetWord(w, m)
    ELSE hMaskSetWord(w, m)

LastSet(ct, l, m) ==
    IF ct = E THEN [l EXCEPT !.e = m]
    ELSE IF ct = F THEN [l EXCEPT !.f = m]
    ELSE [l EXCEPT !.h = m]

\* canMoveThru = (origMask == 0) of the empty case of each branch
EmptyCanMoveThruMut(origMask) == TRUE

EmptyCanMoveThru(origMask) == origMask = 0

\* The caller's variables at the call analyzeCell(row, col, ct, ...).
OutAt(row, col, ct) ==
    [OutInit EXCEPT !.called = TRUE, !.row = row, !.col = col, !.ct = ct]

(***************************************************************************)
(* Operations on the matrix.                                               *)
(***************************************************************************)
\* initMasks(): zero every word; a new DP lifecycle begins.  nops counts
\* every operation on the matrix of a behaviour.
initMasks ==
    /\ nops > 0 /\ nops < MaxOps
    /\ masks_' = [i \in Cells |-> 0]
    /\ last' = [i \in Cells |-> NoMask]
    /\ nops' = nops + 1
    /\ out' = OutInit
    /\ run' = RunFresh
    /\ UNCHANGED <<scoring, gaps, nf, mat, met>>

setReportedThrough(row, col) ==
    /\ nops < MaxOps
    /\ masks_' = [masks_ EXCEPT ![Idx(row, col)] = setReportedThroughWord(@)]
    /\ nops' = nops + 1
    /\ out' = OutInit
    /\ run' = RunMixed
    /\ UNCHANGED <<scoring, gaps, nf, mat, last, met>>

\* hMaskSet(row, col, mask), assert_lt(mask, 32)
hMaskSet(row, col, mask) ==
    /\ nops < MaxOps
    /\ mask < 32
    /\ masks_' = [masks_ EXCEPT ![Idx(row, col)] = hMaskSetWord(@, mask)]
    /\ last' = [last EXCEPT ![Idx(row, col)] = LastSet(H, @, mask)]
    /\ nops' = nops + 1
    /\ out' = OutInit
    /\ run' = RunMixed
    /\ UNCHANGED <<scoring, gaps, nf, mat, met>>

\* eMaskSet(row, col, mask), assert_lt(mask, 4)
eMaskSet(row, col, mask) ==
    /\ nops < MaxOps
    /\ mask < 4
    /\ masks_' = [masks_ EXCEPT ![Idx(row, col)] = eMaskSetWord(@, mask)]
    /\ last' = [last EXCEPT ![Idx(row, col)] = LastSet(E, @, mask)]
    /\ nops' = nops + 1
    /\ out' = OutInit
    /\ run' = RunMixed
    /\ UNCHANGED <<scoring, gaps, nf, mat, met>>

\* fMaskSet(row, col, mask), assert_lt(mask, 4)
fMaskSet(row, col, mask) ==
    /\ nops < MaxOps
    /\ mask < 4
    /\ masks_' = [masks_ EXCEPT ![Idx(row, col)] = fMaskSetWord(@, mask)]
    /\ last' = [last EXCEPT ![Idx(row, col)] = LastSet(F, @, mask)]
    /\ nops' = nops + 1
    /\ out' = OutInit
    /\ run' = RunMixed
    /\ UNCHANGED <<scoring, gaps, nf, mat, met>>

\* analyzeCell(row, col, ct, refc, readc, readq, sc, offsetsc, floorsc, rand,
\* empty, cur, branch, canMoveThru, reportedThru); r is what rand yields.
\* Any other operation ends the scope of the caller's variables.
\* The E branch asserts gapsAllowed and col > 0, the F branch gapsAllowed.
analyzeCell(row, col, ct, r) ==
    /\ nops < MaxOps
    /\ nops' = nops + 1
    /\ UNCHANGED <<scoring, gaps, nf, mat, met>>
    /\ IF reportedThrough(row, col)
       THEN /\ r = 0
            /\ out' = [OutAt(row, col, ct) EXCEPT !.reportedThru = TRUE,
                                                  !.canMoveThru = FALSE]
            /\ run' = RunMixed
            /\ UNCHANGED <<masks_, last>>
       ELSE IF row = 0
       THEN /\ r = 0
            /\ out' = [OutAt(row, col, ct) EXCEPT !.reportedThru = FALSE,
                                                  !.canMoveThru = TRUE,
                                                  !.empty = FALSE]
            /\ run' = RunMixed
            /\ UNCHANGED <<masks_, last>>
       ELSE /\ ct = E => (gapsAllowed(row) /\ col > 0)
            /\ ct = F => gapsAllowed(row)
            /\ LET origMask == OrigMask(row, col, ct)
                   mask == WorkMask(row, col, ct)
                   sel == Select(ct, mask, origMask, r)
               IN  /\ r \in RandChoices(ct, mask)
                   /\ out' = [OutAt(row, col, ct) EXCEPT
                                 !.reportedThru = FALSE,
                                 !.canMoveThru = IF sel.empty THEN EmptyCanMoveThru(origMask)
                                                 ELSE TRUE,
                                 !.empty = sel.empty,
                                 !.cur = IF sel.empty THEN @ ELSE sel.cur,
                                 !.branch = IF sel.branch THEN TRUE ELSE @]
                   /\ run' = RunAfter(row, col, ct,
                                       IF sel.empty THEN "EMPTY" ELSE sel.cur)
                   /\ IF sel.wrote >= 0
                      THEN /\ masks_' = [masks_ EXCEPT ![Idx(row, col)] =
                                            MaskSetWord(ct, @, sel.wrote)]
                           /\ last' = [last EXCEPT ![Idx(row, col)] =
                                            LastSet(ct, @, sel.wrote)]
                      ELSE UNCHANGED <<masks_, last>>

\* The rows whose masks are written: analyzeCell returns before any write at
\* row 0.
MaskRows == Rows \ {0}

\* The masks the model gives to hMaskSet directly.
HMaskArgs == {0, 16, 31}
\* The masks the model gives to eMaskSet and fMaskSet directly.
EFMaskArgs == {0, 3}

Init ==
    /\ scoring \in MatScorings
    /\ gaps = GapsIdle
    /\ nf = NfIdle
    /\ mat \in Matrices
    /\ masks_ = [i \in Cells |-> 0]
    /\ out = OutInit
    /\ last = [i \in Cells |-> NoMask]
    /\ nops = 0
    /\ run = RunFresh
    /\ met = MetIdle

Next ==
    \/ initMasks
    \/ \E row \in Rows, col \in Cols : setReportedThrough(row, col)
    \/ \E row \in MaskRows, col \in Cols, mask \in HMaskArgs : hMaskSet(row, col, mask)
    \/ \E row \in MaskRows, col \in Cols, mask \in EFMaskArgs : eMaskSet(row, col, mask)
    \/ \E row \in MaskRows, col \in Cols, mask \in EFMaskArgs : fMaskSet(row, col, mask)
    \/ \E row \in Rows, col \in Cols, ct \in {E, F, H}, r \in 0..4 :
          analyzeCell(row, col, ct, r)

Spec == Init /\ [][Next]_vars

(***************************************************************************)
(* Claims about maxReadGaps / maxRefGaps (checked under SpecGaps).         *)
(***************************************************************************)
\* Cost of k gaps: open + (k-1) * extend, counted only when k >= 1.
AffineCost(k, open, extend) == IF k >= 1 THEN open + (k - 1) * extend ELSE 0

\* Score of a read of gaps.rdlen matches with k read gaps / k reference gaps.
ReadGapsScore(k) ==
    AllMatchScore(gaps.rdlen) - k * match - AffineCost(k, readGapOpen, readGapExtend)

RefGapsScore(k) ==
    AllMatchScore(gaps.rdlen) - AffineCost(k, refGapOpen, refGapExtend)

ReadGapsDone == gaps.pc = "done" /\ gaps.fn = "maxReadGaps"
RefGapsDone == gaps.pc = "done" /\ gaps.fn = "maxRefGaps"

\* C1: when maxReadGaps(minsc, rdlen) returns, the result k is >= 0, k read
\* gaps are feasible (rdlen*match - k*match - cost(k) >= minsc) and no larger
\* number of read gaps is; with match=1, open=15, extend=4, minsc=0 it returns
\* 0 for rdlen 10..15, 1 for 16..20 and 2 for 21 (the assertions of Case 1).
C1_MaxReadGapsLargest ==
    ReadGapsDone =>
        /\ gaps.ret >= 0
        /\ ReadGapsScore(gaps.ret) >= gaps.minsc
        /\ \A j \in (gaps.ret + 1)..(MaxIter + 2) : ReadGapsScore(j) < gaps.minsc
        /\ (match = 1 /\ readGapOpen = 15 /\ readGapExtend = 4 /\ gaps.minsc = 0) =>
              /\ gaps.rdlen \in 10..15 => gaps.ret = 0
              /\ gaps.rdlen \in 16..20 => gaps.ret = 1
              /\ gaps.rdlen = 21 => gaps.ret = 2

C1_Witness ==
    /\ ReadGapsDone
    /\ match = 1 /\ readGapOpen = 15 /\ readGapExtend = 4
    /\ gaps.minsc = 0 /\ gaps.rdlen = 21 /\ gaps.ret = 2

\* C2 as stated: maxRefGaps runs maxReadGaps' algorithm with the reference-gap
\* costs, so after num iterations sc = rdlen*match - num*match - cost(num),
\* and the result is the iteration count minus 1.
C2_RefGapsSubtractsMatch ==
    (gaps.fn = "maxRefGaps" /\ gaps.pc \in {"loop", "done"}) =>
        /\ gaps.sc = AllMatchScore(gaps.rdlen) - gaps.num * match
                        - AffineCost(gaps.num, refGapOpen, refGapExtend)
        /\ gaps.pc = "done" => gaps.ret = gaps.num - 1

\* C2 amended: each iteration of maxRefGaps subtracts refGapOpen (first gap)
\* or refGapExtend (later gaps) and no match, so after num iterations
\* sc = rdlen*match - cost(num); the loop ends at the first sc < minsc and
\* the result is the iteration count minus 1.
C2_RefGapsAlgorithm ==
    (gaps.fn = "maxRefGaps" /\ gaps.pc \in {"loop", "done"}) =>
        /\ gaps.sc = RefGapsScore(gaps.num)
        /\ gaps.first <=> (gaps.num = 0)
        /\ gaps.pc = "done" =>
              /\ gaps.sc < gaps.minsc
              /\ gaps.num >= 1
              /\ RefGapsScore(gaps.num - 1) >= gaps.minsc
              /\ gaps.ret = gaps.num - 1

C2_Witness ==
    /\ RefGapsDone
    /\ match = 4 /\ refGapOpen = 3 /\ refGapExtend = 1
    /\ gaps.num = 3 /\ gaps.ret = 2

\* C3: when maxRefGaps(minsc, rdlen) returns, the result k is >= 0,
\* rdlen*match - cost(k) >= minsc and no larger k satisfies it (a reference
\* gap forfeits no match bonus); with match=1, open=15, extend=4, minsc=0 it
\* returns 0 for rdlen 10..14, 1 for 15..18, 2 for 19..21, and with match=4,
\* open=35, extend=10, minsc=0 the values asserted by Case 2.
C3_MaxRefGapsLargest ==
    RefGapsDone =>
        /\ gaps.ret >= 0
        /\ RefGapsScore(gaps.ret) >= gaps.minsc
        /\ \A j \in (gaps.ret + 1)..(MaxIter + 2) : RefGapsScore(j) < gaps.minsc
        /\ (match = 1 /\ refGapOpen = 15 /\ refGapExtend = 4 /\ gaps.minsc = 0) =>
              /\ gaps.rdlen \in 10..14 => gaps.ret = 0
              /\ gaps.rdlen \in 15..18 => gaps.ret = 1
              /\ gaps.rdlen \in 19..21 => gaps.ret = 2
        /\ (match = 4 /\ refGapOpen = 35 /\ refGapExtend = 10 /\ gaps.minsc = 0) =>
              /\ gaps.rdlen = 8 => gaps.ret = 0
              /\ gaps.rdlen \in 9..11 => gaps.ret = 1
              /\ gaps.rdlen \in 12..13 => gaps.ret = 2
              /\ gaps.rdlen = 14 => gaps.ret = 3

C3_Witness ==
    /\ RefGapsDone
    /\ match = 1 /\ refGapOpen = 15 /\ refGapExtend = 4
    /\ gaps.minsc = 0 /\ gaps.rdlen = 19 /\ gaps.ret = 2

(***************************************************************************)
(* Scoring::nFilter and Scoring::nFilterPair.  A read is a sequence of     *)
(* base codes, 4 = N.  A null mate pointer is NULL.                        *)
(***************************************************************************)
Bases == {0, 4}
NULL == <<-1>>

ReadsOfLen(lo, hi) == UNION {[1..k -> Bases] : k \in lo..hi}

NCeilConsts == {0 - FScale, 0, FScale, 2 * FScale}
NCeilLinears ==
    {0 - NCeilLinearTenth, 0, NCeilLinearTenth, 4 * NCeilLinearTenth, FScale \div 2}

NFilterScorings ==
    {MkScoring(1, 15, 4, 15, 4, ncc, ncl, ncat, 5, 3) :
        ncc \in NCeilConsts, ncl \in NCeilLinears, ncat \in BOOLEAN}

\* float maxns = nCeilConst + nCeilLinear * rdlen
NCeilExpr(rdlen) == FAdd(nCeilConst, FMul(nCeilLinear, rdlen))

\* if(maxns < 0.0f) maxns = 0.0f
ClampMaxNs(maxns) == IF maxns < 0 THEN 0 ELSE maxns

\* if(ns > maxns) return false, ns and maxns floats
ExceedsMut(ns, maxns) == ToFloat(ns) >= maxns

Exceeds(ns, maxns) == ToFloat(ns) > maxns

\* The for loop of nFilter from 1-based position i with ns Ns seen so far.
RECURSIVE nFilterLoop(_, _, _, _)
nFilterLoop(rd, i, ns, maxns) ==
    IF i > Len(rd) THEN TRUE
    ELSE IF rd[i] = 4
         THEN IF Exceeds(ns + 1, maxns) THEN FALSE
              ELSE nFilterLoop(rd, i + 1, ns + 1, maxns)
         ELSE nFilterLoop(rd, i + 1, ns, maxns)

nFilter(rd) == nFilterLoop(rd, 1, 0, ClampMaxNs(NCeilExpr(Len(rd))))

\* One for loop of nFilterPair over mate rd: <<returned early, ns>>.
RECURSIVE PairLoop(_, _, _, _)
PairLoop(rd, i, ns, maxns) ==
    IF i > Len(rd) THEN <<FALSE, ns>>
    ELSE LET ns2 == IF rd[i] = 4 THEN ns + 1 ELSE ns
         IN  IF Exceeds(ns2, maxns) THEN <<TRUE, ns2>>
             ELSE PairLoop(rd, i + 1, ns2, maxns)

\* nFilterPair: <<filt1, filt2>> on return.
nFilterPair(rd1, rd2) ==
    IF rd1 # NULL /\ rd2 # NULL /\ ncatpair
    THEN LET maxns == NCeilExpr(Len(rd1) + Len(rd2))
             l1 == PairLoop(rd1, 1, 0, maxns)
             l2 == PairLoop(rd2, 1, l1[2], maxns)
         IN  IF l1[1] THEN <<FALSE, FALSE>>
             ELSE IF l2[1] THEN <<FALSE, FALSE>>
             ELSE <<TRUE, TRUE>>
    ELSE <<IF rd1 # NULL THEN nFilter(rd1) ELSE FALSE,
           IF rd2 # NULL THEN nFilter(rd2) ELSE FALSE>>

\* A call of nFilter (assert_gt(rd.length(), 0)); one call per behaviour.
nFilterCall(rd) ==
    /\ nf.op = "none"
    /\ Len(rd) > 0
    /\ nf' = [op |-> "nFilter", rd1 |-> rd, rd2 |-> NULL,
              ret |-> nFilter(rd), filt1 |-> FALSE, filt2 |-> FALSE]
    /\ UNCHANGED <<scoring, gaps, matvars, met>>

\* A call of nFilterPair; a mate filtered on its own is non-empty.
nFilterPairCall(rd1, rd2) ==
    /\ nf.op = "none"
    /\ (rd1 = NULL \/ rd2 = NULL \/ ~ncatpair) => (Len(rd1) > 0 /\ Len(rd2) > 0)
    /\ LET r == nFilterPair(rd1, rd2)
       IN  nf' = [op |-> "nFilterPair", rd1 |-> rd1, rd2 |-> rd2,
                  ret |-> FALSE, filt1 |-> r[1], filt2 |-> r[2]]
    /\ UNCHANGED <<scoring, gaps, matvars, met>>

InitNFilter ==
    /\ scoring \in NFilterScorings
    /\ gaps = GapsIdle
    /\ nf = NfIdle
    /\ MatIdle
    /\ met = MetIdle

NextNFilter ==
    \/ \E rd \in ReadsOfLen(1, MaxReadLen) : nFilterCall(rd)
    \/ \E rd1 \in ReadsOfLen(0, MaxMateLen) \cup {NULL},
          rd2 \in ReadsOfLen(0, MaxMateLen) \cup {NULL} : nFilterPairCall(rd1, rd2)

SpecNFilter == InitNFilter /\ [][NextNFilter]_vars

(***************************************************************************)
(* Claims about nFilter / nFilterPair (checked under SpecNFilter).         *)
(***************************************************************************)
\* Number of positions of rd holding N.
CountN(rd) == Cardinality({i \in 1..Len(rd) : rd[i] = 4})

\* floor(nCeilConst + nCeilLinear * len), a negative ceiling taken as 0.
NCeilFloor(len) ==
    LET c == NCeilExpr(len) IN IF c < 0 THEN 0 ELSE c \div FScale

\* C4: nFilter(read) passes iff the number of Ns is at most
\* floor(nCeilConst + nCeilLinear * len) with a negative ceiling taken as 0;
\* a read without Ns always passes.
C4_NFilterCeiling ==
    nf.op = "nFilter" =>
        /\ nf.ret <=> (CountN(nf.rd1) <= NCeilFloor(Len(nf.rd1)))
        /\ CountN(nf.rd1) = 0 => nf.ret

C4_Witness ==
    /\ nf.op = "nFilter" /\ ~nf.ret
    /\ nCeilConst = FScale /\ nCeilLinear = 4 * NCeilLinearTenth
    /\ Len(nf.rd1) = 3 /\ CountN(nf.rd1) = 3

IsS6 == nf.op = "nFilter" /\ nCeilConst = FScale /\ nCeilLinear = NCeilLinearTenth
            /\ Len(nf.rd1) = 10

\* C5 as stated: with n_ceil_const = 1 and n_ceil_linear = 0.1, nFilter
\* rejects a read of length 10 with 2 Ns and passes one with 1 N.
C5_S6RejectsTwoNs ==
    IsS6 => /\ CountN(nf.rd1) = 2 => ~nf.ret
            /\ CountN(nf.rd1) = 1 => nf.ret

\* C5 amended: with n_ceil_const = 1 and n_ceil_linear = 0.1 the ceiling of a
\* read of length 10 is 2: nFilter passes a read of length 10 with 1 N or
\* 2 Ns and rejects one with 3 Ns.
C5_S6RejectsThreeNs ==
    IsS6 => /\ CountN(nf.rd1) = 3 => ~nf.ret
            /\ CountN(nf.rd1) = 2 => nf.ret
            /\ CountN(nf.rd1) = 1 => nf.ret

C5_Witness == IsS6 /\ CountN(nf.rd1) = 2 /\ nf.ret

IsCatPair == nf.op = "nFilterPair" /\ ncatpair /\ nf.rd1 # NULL /\ nf.rd2 # NULL

\* C6: with ncatpair set and both mates present, nFilterPair returns
\* filt1 = filt2, equal to nFilter's verdict on the concatenation of the
\* mates: pass iff N(rd1) + N(rd2) <= floor(nCeilConst + nCeilLinear *
\* (len1 + len2)) with a negative ceiling taken as 0.
C6_CatPairAsConcatenation ==
    IsCatPair =>
        /\ nf.filt1 = nf.filt2
        /\ nf.filt1 = nFilter(nf.rd1 \o nf.rd2)
        /\ nf.filt1 <=> (CountN(nf.rd1) + CountN(nf.rd2)
                            <= NCeilFloor(Len(nf.rd1) + Len(nf.rd2)))

(***************************************************************************)
(* Claims about the mask words (checked under Spec).                       *)
(***************************************************************************)
\* C7: after any sequence of hMaskSet calls on a cell since initMasks,
\* isHMaskSet is true and the H field read back as (word >> 2) & 31 equals
\* the mask of the most recent hMaskSet call.
C7_HMaskReadAfterWrite ==
    \A row \in Rows, col \in Cols :
        last[Idx(row, col)].h >= 0 =>
            /\ isHMaskSet(row, col)
            /\ HMaskGet(Word(row, col)) = last[Idx(row, col)].h

\* C8: after any sequence of eMaskSet (fMaskSet) calls on a cell since
\* initMasks, isEMaskSet (isFMaskSet) is true and the field read back as
\* (word >> 8) & 3 ((word >> 11) & 3) equals the mask of the most recent call.
C8_EFMaskReadAfterWrite ==
    \A row \in Rows, col \in Cols :
        /\ last[Idx(row, col)].e >= 0 =>
              /\ isEMaskSet(row, col)
              /\ EMaskGet(Word(row, col)) = last[Idx(row, col)].e
        /\ last[Idx(row, col)].f >= 0 =>
              /\ isFMaskSet(row, col)
              /\ FMaskGet(Word(row, col)) = last[Idx(row, col)].f

\* Two operations were performed, the second an analyzeCell of E cell (1,1)
\* that took the last of two predecessors: the mask written by the first
\* call (1 or 2) was overwritten by 0.
C8_Witness ==
    /\ mat.nrow >= 2 /\ mat.ncol >= 2 /\ gapsAllowed(1)
    /\ EOrigMask(1, 1) = 3
    /\ nops = 2
    /\ out.called /\ out.row = 1 /\ out.col = 1 /\ out.ct = E
    /\ ~out.empty /\ ~out.branch
    /\ last[Idx(1, 1)].e = 0
    /\ isEMaskSet(1, 1) /\ EMaskGet(Word(1, 1)) = 0

\* The bits an operation must leave alone, as a 16-bit mask.
HKeep == 2^0 + (2^16 - 2^7)
EKeep == (2^7 - 1) + (2^16 - 2^10)
FKeep == (2^10 - 1) + (2^16 - 2^13)
RKeep == 2^16 - 2^1
Reserved == 2^16 - 2^13

SameBits(w1, w2, keep) == BitAnd(w1, keep) = BitAnd(w2, keep)

\* The step changed at most the bits outside keep of cell (row, col).
FrameStep(row, col, keep) ==
    /\ SameBits(masks_[Idx(row, col)], masks_'[Idx(row, col)], keep)
    /\ \A i \in Cells \ {Idx(row, col)} : masks_'[i] = masks_[i]

\* A setter call on cell (row, col); its mask is the one recorded in last'.
C9_Step(row, col) ==
    LET l == last'[Idx(row, col)] IN
    /\ (\E m \in {l.h} \cap 0..31 : hMaskSet(row, col, m))
           => FrameStep(row, col, HKeep)
    /\ (\E m \in {l.e} \cap 0..3 : eMaskSet(row, col, m))
           => FrameStep(row, col, EKeep)
    /\ (\E m \in {l.f} \cap 0..3 : fMaskSet(row, col, m))
           => FrameStep(row, col, FKeep)
    /\ setReportedThrough(row, col) => FrameStep(row, col, RKeep)

\* The setter call made by analyzeCell on the cell it analysed.
C9_AnalyzeStep ==
    out'.called =>
        /\ out'.ct = H => FrameStep(out'.row, out'.col, HKeep)
        /\ out'.ct = E => FrameStep(out'.row, out'.col, EKeep)
        /\ out'.ct = F => FrameStep(out'.row, out'.col, FKeep)

C9_ReservedClear == \A i \in Cells : BitAnd(masks_[i], Reserved) = 0

\* C9: hMaskSet leaves bits 0 and 7..15 of the cell's word unchanged,
\* eMaskSet bits 0..6 and 10..15, fMaskSet bits 0..9 and 13..15,
\* setReportedThrough bits 1..15; none changes the word of another cell; the
\* reserved bits 13..15 stay 0.
C9_MaskFrame ==
    /\ [][/\ C9_AnalyzeStep
          /\ (~out'.called /\ masks_' # masks_) =>
                 \A row \in Rows, col \in Cols : C9_Step(row, col)]_vars
    /\ []C9_ReservedClear

\* All four fields of cell (1,1) were written in three operations.
C9_Witness ==
    /\ mat.nrow >= 2 /\ mat.ncol >= 2
    /\ nops = 3
    /\ reportedThrough(1, 1)
    /\ last[Idx(1, 1)].e = 3 /\ EMaskGet(Word(1, 1)) = 3
    /\ last[Idx(1, 1)].f = 3 /\ FMaskGet(Word(1, 1)) = 3

InitBitsKept(row, col) ==
    /\ isHMaskSet(row, col) => isHMaskSet(row, col)'
    /\ isEMaskSet(row, col) => isEMaskSet(row, col)'
    /\ isFMaskSet(row, col) => isFMaskSet(row, col)'

\* C10: between two initMasks calls, once the H-, E- or F-initialised bit of
\* a cell is set, no hMaskSet, eMaskSet, fMaskSet, setReportedThrough or
\* analyzeCell call on any cell clears it.
C10_InitBitsStay ==
    [][initMasks \/ \A row \in Rows, col \in Cols : InitBitsKept(row, col)]_vars

\* The E mask of cell (1,1) was set, and then analyzeCell rewrote the word
\* through hMaskSet.
C10_Witness ==
    /\ mat.nrow >= 2 /\ mat.ncol >= 2
    /\ isEMaskSet(1, 1) /\ isHMaskSet(1, 1)
    /\ last[Idx(1, 1)].e = 3
    /\ out.called /\ out.row = 1 /\ out.col = 1 /\ out.ct = H /\ ~out.empty

(***************************************************************************)
(* Claims about analyzeCell (checked under Spec).  A step of analyzeCell   *)
(* is a step after which out.called holds; out' holds its arguments row,   *)
(* col and ct and the values it returned.                                  *)
(***************************************************************************)
\* Bit 0 of the word of a cell.
RTBit(row, col) == masks_[Idx(row, col)] % 2 = 1

\* C11: if the reported-through bit of the cell is set, analyzeCell returns
\* reportedThru = true and canMoveThru = false, chooses no transition and
\* leaves every mask word unchanged, for every cell type and every row.
C11_ReportedThroughReturns ==
    [][(out'.called /\ RTBit(out'.row, out'.col)) =>
          /\ out'.reportedThru /\ ~out'.canMoveThru
          /\ out'.cur = "NONE" /\ ~out'.branch
          /\ masks_' = masks_]_vars

\* analyzeCell was called on the reported-through H cell (1,1), whose H mask
\* holds all five predecessors.
C11_Witness ==
    /\ mat.nrow >= 2 /\ mat.ncol >= 2
    /\ out.called /\ out.row = 1 /\ out.col = 1 /\ out.ct = H
    /\ RTBit(1, 1) /\ out.reportedThru /\ ~out.canMoveThru
    /\ isHMaskSet(1, 1) /\ HMaskGet(Word(1, 1)) = 31

InGapBarrier(row) == row < scoring.gapbar \/ mat.nrow - row - 1 < scoring.gapbar

\* A predecessor with element from can produce the element cur by delta.
FromOK(from, cur, delta) ==
    /\ from + mat.offsetsc > mat.floorsc
    /\ cur + mat.offsetsc = (from + mat.offsetsc) + delta

\* The transitions into cell (row, col) of matrix ct, row > 0, that the
\* scores of the matrix allow.
ScorePreds(row, col, ct) ==
    IF ct = E THEN
        {t \in {"SW_BT_OALL_READ_OPEN", "SW_BT_RDGAP_EXTEND"} :
            /\ col > 0
            /\ t = "SW_BT_OALL_READ_OPEN" =>
                  FromOK(helt(row, col - 1), eelt(row, col), 0 - scoring.readGapOpen)
            /\ t = "SW_BT_RDGAP_EXTEND" =>
                  FromOK(eelt(row, col - 1), eelt(row, col), 0 - scoring.readGapExtend)}
    ELSE IF ct = F THEN
        {t \in {"SW_BT_OALL_REF_OPEN", "SW_BT_RFGAP_EXTEND"} :
            /\ t = "SW_BT_OALL_REF_OPEN" =>
                  FromOK(helt(row - 1, col), felt(row, col), 0 - scoring.refGapOpen)
            /\ t = "SW_BT_RFGAP_EXTEND" =>
                  FromOK(felt(row - 1, col), felt(row, col), 0 - scoring.refGapExtend)}
    ELSE
        {t \in {"SW_BT_OALL_DIAG", "SW_BT_OALL_REF_OPEN", "SW_BT_OALL_READ_OPEN",
                "SW_BT_RFGAP_EXTEND", "SW_BT_RDGAP_EXTEND"} :
            /\ t = "SW_BT_OALL_DIAG" =>
                  /\ col > 0
                  /\ FromOK(helt(row - 1, col - 1), helt(row, col),
                            Score(mat.rd[row + 1], mat.rf[col + 1], 40))
            /\ t = "SW_BT_OALL_REF_OPEN" =>
                  FromOK(helt(row - 1, col), helt(row, col), 0 - scoring.refGapOpen)
            /\ t = "SW_BT_OALL_READ_OPEN" =>
                  /\ col > 0
                  /\ FromOK(helt(row, col - 1), helt(row, col), 0 - scoring.readGapOpen)
            /\ t = "SW_BT_RFGAP_EXTEND" =>
                  FromOK(felt(row - 1, col), helt(row, col), 0 - scoring.refGapExtend)
            /\ t = "SW_BT_RDGAP_EXTEND" =>
                  /\ col > 0
                  /\ FromOK(eelt(row, col - 1), helt(row, col), 0 - scoring.readGapExtend)}

\* The originally legal predecessors: an H cell in the gap barrier has the
\* diagonal only.
OrigPreds(row, col, ct) ==
    IF ct = H /\ InGapBarrier(row)
    THEN ScorePreds(row, col, ct) \cap {"SW_BT_OALL_DIAG"}
    ELSE ScorePreds(row, col, ct)

\* C13: for a cell (row > 0, not reported-through) whose original predecessor
\* mask has n >= 1 bits, the first n successive analyzeCell calls on the cell
\* and cell type return n pairwise distinct transitions, each an originally
\* legal predecessor, whatever the random choices, and every later call
\* returns empty = true.
C13_DistinctThenEmpty ==
    run.st = "run" =>
        LET preds == OrigPreds(run.row, run.col, run.ct)
            n == Cardinality(preds)
        IN  n >= 1 =>
              \A k \in 1..Len(run.curs) :
                 /\ k <= n => /\ run.curs[k] \in preds
                              /\ \A j \in 1..(k - 1) : run.curs[j] # run.curs[k]
                 /\ k > n => run.curs[k] = "EMPTY"

\* The stored H mask of a cell in the gap barrier is as analyzeCell asserts
\* it: not set, or diagonal only, or 0.
BarrierMaskOK(w) == BitAnd(w, 2) = 0 \/ HMaskGet(w) \in {0, 16}

\* C14: for an H cell whose row lies in the gap barrier, analyzeCell never
\* returns a gap transition: on the first and on every repeated call the
\* result is the diagonal transition or empty, and the mask written back
\* is 0.
C14_GapBarrierNoGaps ==
    [][(/\ out'.called /\ out'.ct = H /\ out'.row > 0
        /\ ~RTBit(out'.row, out'.col)
        /\ InGapBarrier(out'.row)
        /\ BarrierMaskOK(masks_[Idx(out'.row, out'.col)])) =>
          /\ out'.empty \/ out'.cur = "SW_BT_OALL_DIAG"
          /\ out'.empty => masks_' = masks_
          /\ ~out'.empty => last'[Idx(out'.row, out'.col)].h = 0
          /\ BarrierMaskOK(masks_'[Idx(out'.row, out'.col)])]_vars

\* analyzeCell returned the diagonal for H cell (1,1) in the gap barrier,
\* whose scores allow gap predecessors as well.
C14_Witness ==
    /\ mat.nrow >= 2 /\ mat.ncol >= 2
    /\ InGapBarrier(1)
    /\ Cardinality(ScorePreds(1, 1, H)) > 1
    /\ out.called /\ out.row = 1 /\ out.col = 1 /\ out.ct = H
    /\ ~out.reportedThru /\ ~out.empty /\ out.cur = "SW_BT_OALL_DIAG"
    /\ last[Idx(1, 1)].h = 0 /\ HMaskGet(Word(1, 1)) = 0

\* The stored mask of matrix ct of the cell, if set, holds only predecessors
\* of the original mask (as every mask that analyzeCell stores does).
StoredWithinOrig(w, row, col, ct) ==
    LET orig == OrigMask(row, col, ct) IN
    IF ct = E THEN BitAnd(w, Shl(1, 7)) # 0 => BitAnd(EMaskGet(w), orig) = EMaskGet(w)
    ELSE IF ct = F THEN BitAnd(w, Shl(1, 10)) # 0 => BitAnd(FMaskGet(w), orig) = FMaskGet(w)
    ELSE BitAnd(w, Shl(1, 1)) # 0 => BitAnd(HMaskGet(w), orig) = HMaskGet(w)

\* C15: whenever analyzeCell returns a transition (empty = false, row > 0),
\* on a first or a repeated call, the predecessor named by the transition has
\* a score above floorsc and the score of the current cell is the score of
\* the predecessor minus the gap-open or gap-extend cost of the transition,
\* or plus sc.score(readc, refc, readq - 33) for the diagonal.
C15_ReturnedPredecessorLegal ==
    [][(/\ out'.called /\ out'.row > 0
        /\ ~RTBit(out'.row, out'.col)
        /\ StoredWithinOrig(masks_[Idx(out'.row, out'.col)],
                            out'.row, out'.col, out'.ct)) =>
          /\ ~out'.empty => out'.cur \in ScorePreds(out'.row, out'.col, out'.ct)
          /\ StoredWithinOrig(masks_'[Idx(out'.row, out'.col)],
                              out'.row, out'.col, out'.ct)]_vars

\* The second of two analyzeCell calls on H cell (1,1) returned a gap
\* transition out of the mask the first call stored.
C15_Witness ==
    /\ mat.nrow >= 2 /\ mat.ncol >= 2
    /\ run.st = "run" /\ run.row = 1 /\ run.col = 1 /\ run.ct = H
    /\ Len(run.curs) = 2
    /\ out.called /\ ~out.empty /\ out.cur = "SW_BT_RDGAP_EXTEND"
    /\ out.cur \in ScorePreds(1, 1, H)

(***************************************************************************)
(* SSEMetrics::merge.  Each worker owns an SSEMetrics o and merges it once *)
(* into the shared one.  "x += o.x" is a load of x and a store of the sum, *)
(* one step each.  uint64_t sums do not wrap for the values of the model.  *)
(* ThreadSafe ts(&lock, getLock) takes the lock when getLock is true and   *)
(* releases it when merge returns.  A harness that passes getLock = false  *)
(* supplies the exclusion itself: it is modelled with a single worker.     *)
(***************************************************************************)
\* dp, dpsat, dpfail, dpsucc, col, cell, inner, fixup, gathcell, gathsol,
\* bt, btfail, btsucc, btcell, in the order merge adds them
NCounters == 14
Counters == 1..NCounters
Workers == 1..MaxWorkers

\* reset(): every counter 0
MetricsReset == [c \in Counters |-> 0]

\* The counter values of the model.
MetricsValues ==
    {MetricsReset, [c \in Counters |-> 1], [c \in Counters |-> c],
     [c \in Counters |-> c % 3]}

\* dp += o.dp: the value stored
MergeAddMut(x, ox) == ox

MergeAdd(x, ox) == x + ox

\* ThreadSafe ts(&lock, getLock): may the constructor return?
ThreadSafeEnter(lock, getLock) == getLock => lock = 0

\* Worker w calls shared.merge(o[w], getLock); the constructor of ts returns.
mergeEnter(w) ==
    /\ met.n > 0
    /\ met.pc[w] = [at |-> "call", c |-> 0]
    /\ ThreadSafeEnter(met.lock, met.getLock)
    /\ met' = [met EXCEPT !.lock = IF met.getLock THEN w ELSE @,
                          !.pc[w] = [at |-> "load", c |-> 1]]
    /\ UNCHANGED <<scoring, gaps, nf, matvars>>

\* the load of counter c of the shared metrics
mergeLoad(w) ==
    /\ met.n > 0
    /\ met.pc[w].at = "load"
    /\ met' = [met EXCEPT !.tmp[w] = met.shared[met.pc[w].c],
                          !.pc[w] = [at |-> "store", c |-> met.pc[w].c]]
    /\ UNCHANGED <<scoring, gaps, nf, matvars>>

\* the store of the sum into counter c
mergeStore(w) ==
    /\ met.n > 0
    /\ met.pc[w].at = "store"
    /\ LET c == met.pc[w].c IN
       met' = [met EXCEPT !.shared[c] = MergeAdd(met.tmp[w], met.o[w][c]),
                          !.pc[w] = IF c < NCounters
                                    THEN [at |-> "load", c |-> c + 1]
                                    ELSE [at |-> "return", c |-> 0]]
    /\ UNCHANGED <<scoring, gaps, nf, matvars>>

\* merge returns: the destructor of ts releases the lock it took
mergeReturn(w) ==
    /\ met.n > 0
    /\ met.pc[w].at = "return"
    /\ met' = [met EXCEPT !.lock = IF met.getLock THEN 0 ELSE @,
                          !.pc[w] = [at |-> "done", c |-> 0]]
    /\ UNCHANGED <<scoring, gaps, nf, matvars>>

\* n workers, each about to merge its own metrics; init is the shared
\* metrics before the merges.
InitMerge ==
    /\ scoring \in MatScorings
    /\ gaps = GapsIdle
    /\ nf = NfIdle
    /\ MatIdle
    /\ \E n \in Workers, getLock \in BOOLEAN,
          init \in {MetricsReset, [c \in Counters |-> c]},
          o \in [Workers -> MetricsValues] :
          /\ ~getLock => n = 1
          /\ \A w \in Workers : w > n => o[w] = MetricsReset
          /\ met = [n |-> n, getLock |-> getLock, init |-> init, shared |-> init,
                    o |-> o, lock |-> 0,
                    tmp |-> [w \in Workers |-> 0],
                    pc |-> [w \in Workers |->
                               IF w <= n THEN [at |-> "call", c |-> 0]
                               ELSE [at |-> "idle", c |-> 0]]]

NextMerge ==
    \/ \E w \in Workers : mergeEnter(w)
    \/ \E w \in Workers : mergeLoad(w)
    \/ \E w \in Workers : mergeStore(w)
    \/ \E w \in Workers : mergeReturn(w)

SpecMerge == InitMerge /\ [][NextMerge]_vars

(***************************************************************************)
(* Claim about SSEMetrics::merge (checked under SpecMerge).                *)
(***************************************************************************)
RECURSIVE SumO(_, _)
SumO(c, ws) ==
    IF ws = {} THEN 0
    ELSE LET w == CHOOSE x \in ws : TRUE IN met.o[w][c] + SumO(c, ws \ {w})

\* Worker w is between the constructor and the destructor of ts.
InMerge(w) == met.pc[w].at \in {"load", "store", "return"}

\* Worker w has stored counter c.
Merged(w, c) ==
    \/ met.pc[w].at \in {"return", "done"}
    \/ met.pc[w].at \in {"load", "store"} /\ met.pc[w].c > c

AllMerged == \A w \in 1..met.n : met.pc[w].at = "done"

\* C16: merge adds each of the 14 counters of o to the same counter of the
\* target; merges by several workers with getLock = true exclude each other,
\* so every counter is its initial value plus the sum of the values merged so
\* far, and after all merges the initial value plus the sum of all of them,
\* with the lock free again, in every interleaving.
C16_MergeNoLostUpdate ==
    met.n > 0 =>
        /\ met.getLock => Cardinality({w \in Workers : InMerge(w)}) <= 1
        /\ \A c \in Counters :
              met.shared[c] = met.init[c] + SumO(c, {w \in Workers : Merged(w, c)})
        /\ AllMerged =>
              /\ met.lock = 0
              /\ \A c \in Counters :
                    met.shared[c] = met.init[c] + SumO(c, 1..met.n)

\* Two workers with different non-zero metrics have both merged under the
\* lock into metrics that were not zero.
C16_Witness ==
    /\ met.n = 2 /\ met.getLock /\ AllMerged
    /\ met.init = [c \in Counters |-> c]
    /\ met.o[1] = [c \in Counters |-> c]
    /\ met.o[2] = [c \in Counters |-> 1]
    /\ met.shared = [c \in Counters |-> 2 * c + 1]

(***************************************************************************)
(* Termination of maxReadGaps and maxRefGaps (checked under SpecGapsLive). *)
(***************************************************************************)
\* C17: maxReadGaps and maxRefGaps terminate for every input that meets the
\* preconditions (match >= 0, gap costs >= 0, rdlen * match >= minsc): a call
\* that has entered its loop returns.
C17_GapsTerminate == (gaps.pc \in {"loop", "body"}) ~> (gaps.pc = "done")

=============================================================================
